---------------------------- MODULE Spec2Model ----------------------------
(***************************************************************************)
(* Desktop calendar (src/app.py): the two in-memory stores of              *)
(* CalendarWidget (events, event_types), their JSON files, the per-date    *)
(* text format of the calendar widget, and the handlers that change them.  *)
(***************************************************************************)
EXTENDS Integers, Sequences, FiniteSets, TLC

VARIABLES
    pc,           \* "fresh" (never started), "running", "stopped"
    today,        \* QDate.currentDate()
    events,       \* self.events: dict date string -> record
    event_types,  \* self.event_types: dict type name -> [color]
    eventsFile,   \* content of events_data.json
    typesFile,    \* content of event_types.json
    display,      \* calendar.dateTextFormat: QDate -> format
    pending,      \* slot invocations still to run for the emitted signal
    failures,     \* failed write attempts so far
    visible,      \* self.isVisible(): the window is shown
    last          \* what the most recent step did

vars == <<pc, today, events, event_types, eventsFile, typesFile, display,
          pending, failures, visible, last>>

---------------------------------------------------------------------------
(* Bounds of the model *)

\* save calls with a failed write attempt that the environment may cause in
\* one run of the model
MaxWriteFailures == 1

---------------------------------------------------------------------------
(* Dates: a QDate is <<year, month, day>>, a key of self.events is the      *)
(* "yyyy-MM-dd" string.                                                     *)

QDates == {<<2024, 3, 15>>, <<2024, 3, 16>>}

InvalidDate == <<0, 0, 0>>

\* QDate.toString("yyyy-MM-dd")
toString(q) ==
    CASE q = <<2024, 3, 15>> -> "2024-03-15"
      [] q = <<2024, 3, 16>> -> "2024-03-16"
      [] OTHER -> ""

\* QDate.fromString(s, "yyyy-MM-dd")
fromString(s) ==
    IF \E q \in QDates : toString(q) = s
    THEN CHOOSE q \in QDates : toString(q) = s
    ELSE InvalidDate

\* the day after q, within the modelled days
NextDay(q) == <<q[1], q[2], q[3] + 1>>

---------------------------------------------------------------------------
(* Colors: QColor(name) as an RGB triple, QColor.lightness()                *)

InvalidColor == <<-1, -1, -1>>

\* QColor(name)
QColor(name) ==
    CASE name = "#FF5733" -> <<255, 87, 51>>
      [] name = "#33FF57" -> <<51, 255, 87>>
      [] name = "#3357FF" -> <<51, 87, 255>>
      [] name = "#FF33A8" -> <<255, 51, 168>>
      [] name = "white"   -> <<255, 255, 255>>
      [] name = "#C8C8C8" -> <<200, 200, 200>>
      [] name = "red"     -> <<255, 0, 0>>
      [] name = "blue"    -> <<0, 0, 255>>
      [] name = "#ADD8E6" -> <<173, 216, 230>>
      [] name = "black"   -> <<0, 0, 0>>
      [] OTHER -> InvalidColor

Max3(c) == IF c[1] >= c[2] /\ c[1] >= c[3] THEN c[1]
           ELSE IF c[2] >= c[3] THEN c[2] ELSE c[3]

Min3(c) == IF c[1] <= c[2] /\ c[1] <= c[3] THEN c[1]
           ELSE IF c[2] <= c[3] THEN c[2] ELSE c[3]

\* QColor.lightness(): the HSL lightness, 16 bit, rounded, shifted to 8 bit
lightness(c) ==
    IF c = InvalidColor THEN 0
    ELSE (((Max3(c) + Min3(c)) * 257 + 1) \div 2) \div 256

\* highlight_date: "if bg_color.lightness() > 200"
LightnessThreshold == 200

\* QTextCharFormat: foreground and background brush
Format(fg, bg) == [fg |-> fg, bg |-> bg]

\* a QTextCharFormat() nothing was set on: the date is drawn as the widget draws it
UnsetFormat == Format(<<-2, -2, -2>>, <<-2, -2, -2>>)

\* highlight_date(date, False): Qt.black on Qt.white
NeutralFormat == Format(QColor("black"), QColor("white"))

\* the format for today when today has no event
TodayFormat == Format(QColor("blue"), QColor("#ADD8E6"))

---------------------------------------------------------------------------
(* Python dict (insertion ordered) and its JSON text                        *)

EmptyDict == [keys |-> <<>>, val |-> [k \in {} |-> 0]]

Has(d, k) == k \in DOMAIN d.val

\* d[k] = v
DictSet(d, k, v) ==
    [keys |-> IF Has(d, k) THEN d.keys ELSE Append(d.keys, k),
     val  |-> [x \in (DOMAIN d.val) \cup {k} |-> IF x = k THEN v ELSE d.val[x]]]

\* del d[k]
DictDel(d, k) ==
    [keys |-> SelectSeq(d.keys, LAMBDA x : x # k),
     val  |-> [x \in (DOMAIN d.val) \ {k} |-> d.val[x]]]

\* the file does not exist
Absent == [exists |-> FALSE, valid |-> FALSE, text |-> <<>>]

\* the file exists and json.load raises on it (also a file cut short by a
\* failed write)
Malformed == [exists |-> TRUE, valid |-> FALSE, text |-> <<>>]

\* the file exists and holds the JSON text given
File(text) == [exists |-> TRUE, valid |-> TRUE, text |-> text]

\* json.dump(d, f): the members of the JSON object, in the dict's order
json_dump(d) == [i \in 1..Len(d.keys) |-> <<d.keys[i], d.val[d.keys[i]]>>]

RECURSIVE LoadMembers(_, _, _)
LoadMembers(text, i, d) ==
    IF i > Len(text) THEN d
    ELSE LoadMembers(text, i + 1, DictSet(d, text[i][1], text[i][2]))

\* json.load(f) of a well-formed file
json_load(text) == LoadMembers(text, 1, EmptyDict)

---------------------------------------------------------------------------
(* The object's state as one record, so that a method is an operator from   *)
(* state to state: events, event_types, eventsFile, typesFile, display,     *)
(* failures (failed write attempts so far), writes (the save calls of the   *)
(* running handler, each with its number of write attempts), path (the      *)
(* return path the handler took), raised (an exception left the handler).   *)

\* the four default event types of create_default_event_types; the names are
\* the source's Chinese names in English (meeting, birthday, holiday,
\* anniversary), the colors are the source's
DefaultTypes == << <<"Meeting", "#FF5733">>, <<"Birthday", "#33FF57">>,
                   <<"Holiday", "#3357FF">>, <<"Anniversary", "#FF33A8">> >>

\* the extra entry ("custom...") that the add-event flow appends to the type list
Custom == "Custom..."

\* dict.get(key, default)
Get(rec, key, default) == IF key \in DOMAIN rec THEN rec[key] ELSE default

\* the outcomes of one write attempt: written; open() raised (file as it
\* was); open() truncated the file and json.dump raised part-way
WriteResults == {"ok", "open_failed", "write_failed"}

\* the outcomes of the write attempts of one save call; the second is read
\* only when the first is a failure
IOs == {<<"ok", "ok">>} \cup
       {<<f, r>> : f \in WriteResults \ {"ok"}, r \in WriteResults}

\* with open(json_file, 'w') as f: json.dump(d, f, ...)
WriteAttempt(file, d, r) ==
    CASE r = "ok" -> File(json_dump(d))
      [] r = "open_failed" -> file
      [] OTHER -> Malformed

\* 1 when a write attempt of the save call fails
FailedAttempts(io) == IF io[1] = "ok" THEN 0 ELSE 1

\* the save call's record: the file and the result of each write attempt made
Written(file, results) == [file |-> file, results |-> results]

\* save_events with one retry too many
save_events_retries_twice(S, io) ==
    LET first == WriteAttempt(S.eventsFile, S.events, io[1])
        second == WriteAttempt(first, S.events, io[2])
    IN  IF io[1] = "ok"
        THEN [S EXCEPT !.eventsFile = first,
                       !.writes = Append(@, Written("events", <<io[1]>>))]
        ELSE IF io[2] = "ok"
        THEN [S EXCEPT !.eventsFile = second,
                       !.failures = @ + 1,
                       !.writes = Append(@, Written("events", <<io[1], io[2]>>))]
        ELSE [S EXCEPT !.eventsFile = WriteAttempt(second, S.events, io[2]),
                       !.failures = @ + 1,
                       !.writes = Append(@, Written("events",
                                                    <<io[1], io[2], io[2]>>))]

\* save_events: write; on an exception makedirs (the directory exists since
\* get_app_data_dir, line 46) and write once more; an exception of the retry
\* is printed
save_events(S, io) ==
    LET first == WriteAttempt(S.eventsFile, S.events, io[1])
    IN  IF io[1] = "ok"
        THEN [S EXCEPT !.eventsFile = first,
                       !.writes = Append(@, Written("events", <<io[1]>>))]
        ELSE [S EXCEPT !.eventsFile = WriteAttempt(first, S.events, io[2]),
                       !.failures = @ + 1,
                       !.writes = Append(@, Written("events", <<io[1], io[2]>>))]

\* save_event_types: as save_events, on event_types.json
save_event_types(S, io) ==
    LET first == WriteAttempt(S.typesFile, S.event_types, io[1])
    IN  IF io[1] = "ok"
        THEN [S EXCEPT !.typesFile = first,
                       !.writes = Append(@, Written("types", <<io[1]>>))]
        ELSE [S EXCEPT !.typesFile = WriteAttempt(first, S.event_types, io[2]),
                       !.failures = @ + 1,
                       !.writes = Append(@, Written("types", <<io[1], io[2]>>))]

\* the outcomes of reading an existing file: read; open() raised
ReadResults == {"ok", "read_failed"}

\* an open() for reading that raises
ReadFailed(S, rd) == [S EXCEPT !.failures = IF rd = "ok" THEN @ ELSE @ + 1]

\* load_events without the save_events of line 184
load_events_no_create(S, rd, io) ==
    IF S.eventsFile.exists
    THEN IF rd = "ok" /\ S.eventsFile.valid
         THEN [S EXCEPT !.events = json_load(S.eventsFile.text)]
         ELSE [ReadFailed(S, rd) EXCEPT !.events = EmptyDict]
    ELSE [S EXCEPT !.events = EmptyDict]

\* load_events
load_events(S, rd, io) ==
    IF S.eventsFile.exists
    THEN IF rd = "ok" /\ S.eventsFile.valid
         THEN [S EXCEPT !.events = json_load(S.eventsFile.text)]
         ELSE [ReadFailed(S, rd) EXCEPT !.events = EmptyDict]
    ELSE save_events([S EXCEPT !.events = EmptyDict], io)

RECURSIVE DictOf(_, _, _)
DictOf(pairs, i, d) ==
    IF i > Len(pairs) THEN d
    ELSE DictOf(pairs, i + 1, DictSet(d, pairs[i][1], [color |-> pairs[i][2]]))

\* create_default_event_types without the save_event_types of line 210
create_default_event_types_no_save(S, io) ==
    [S EXCEPT !.event_types = DictOf(DefaultTypes, 1, EmptyDict)]

\* create_default_event_types
create_default_event_types(S, io) ==
    save_event_types([S EXCEPT !.event_types = DictOf(DefaultTypes, 1, EmptyDict)],
                     io)

\* load_event_types with the except branch of load_events
load_event_types_empty_on_error(S, rd, io) ==
    IF S.typesFile.exists
    THEN IF rd = "ok" /\ S.typesFile.valid
         THEN [S EXCEPT !.event_types = json_load(S.typesFile.text)]
         ELSE [ReadFailed(S, rd) EXCEPT !.event_types = EmptyDict]
    ELSE create_default_event_types(S, io)

\* load_event_types
load_event_types(S, rd, io) ==
    IF S.typesFile.exists
    THEN IF rd = "ok" /\ S.typesFile.valid
         THEN [S EXCEPT !.event_types = json_load(S.typesFile.text)]
         ELSE create_default_event_types(ReadFailed(S, rd), io)
    ELSE create_default_event_types(S, io)

\* calendar.setDateTextFormat(date, fmt)
setDateTextFormat(S, date, fmt) ==
    IF date \in DOMAIN S.display
    THEN [S EXCEPT !.display = [@ EXCEPT ![date] = fmt]]
    ELSE S

\* the format highlight_date builds for highlight=True
HighlightFormat(color) ==
    LET name == IF color = "" THEN "red" ELSE color
        bg_color == QColor(name)
    IN  Format(IF lightness(bg_color) > LightnessThreshold
               THEN QColor("black") ELSE QColor("white"),
               bg_color)

\* highlight_date
highlight_date(S, date, highlight, color) ==
    IF highlight
    THEN setDateTextFormat(S, date, HighlightFormat(color))
    ELSE setDateTextFormat(S, date, NeutralFormat)

RECURSIVE HighlightAll(_, _)
\* the loop of refresh_highlight over self.events.items(), from the i-th key
HighlightAll(S, i) ==
    IF i > Len(S.events.keys) THEN S
    ELSE LET date_str == S.events.keys[i]
             info == S.events.val[date_str]
         IN  HighlightAll(highlight_date(S, fromString(date_str), TRUE,
                                         Get(info, "color", "red")),
                          i + 1)

\* refresh_highlight
refresh_highlight(S, now) ==
    LET T == HighlightAll(S, 1)
    IN  IF ~Has(T.events, toString(now))
        THEN setDateTextFormat(T, now, TodayFormat)
        ELSE T

---------------------------------------------------------------------------
(* Dialogs. QInputDialog.getText and getItem return (text, ok); a handler   *)
(* is given the answer the user gives to each dialog it shows.             *)

Answer(ok, text) == [ok |-> ok, text |-> text]

\* the answer of a dialog that is not shown
NoAnswer == Answer(FALSE, "")

\* "if not ok or not text"
Rejected(a) == ~a.ok \/ a.text = ""

\* the handler shows a dialog
Ask(S, dialog) == [S EXCEPT !.asked = Append(@, dialog)]

\* the handler returns on the path named
Return(S, path) == [S EXCEPT !.path = path]

\* add_event_type without the test of line 576
add_event_type_overwrites(S, ans, io) ==
    LET S1 == Ask(S, "type")
        type_name == ans.type.text
    IN  IF Rejected(ans.type) THEN Return(S1, "aborted")
        ELSE LET S2 == Ask(S1, "color")
                 color_name == ans.color.text
             IN  IF Rejected(ans.color) THEN Return(S2, "aborted")
                 ELSE Return(
                        Ask(save_event_types(
                              [S2 EXCEPT !.event_types =
                                  DictSet(@, type_name, [color |-> color_name])],
                              io),
                            "information"),
                        "done")

\* add_event_type
add_event_type(S, ans, io) ==
    LET S1 == Ask(S, "type")
        type_name == ans.type.text
    IN  IF Rejected(ans.type) THEN Return(S1, "aborted")
        ELSE IF Has(S1.event_types, type_name)
        THEN Return(Ask(S1, "warning"), "exists")
        ELSE LET S2 == Ask(S1, "color")
                 color_name == ans.color.text
             IN  IF Rejected(ans.color) THEN Return(S2, "aborted")
                 ELSE Return(
                        Ask(save_event_types(
                              [S2 EXCEPT !.event_types =
                                  DictSet(@, type_name, [color |-> color_name])],
                              io),
                            "information"),
                        "done")

RECURSIVE UpdateEvents_all(_, _, _, _)
\* the loop of edit_event_type without the test of the event's type
UpdateEvents_all(evs, i, type_name, color_name) ==
    IF i > Len(evs.keys) THEN evs
    ELSE LET date_str == evs.keys[i]
             event == evs.val[date_str]
         IN  UpdateEvents_all(
               DictSet(evs, date_str, [event EXCEPT !.color = color_name]),
               i + 1, type_name, color_name)

RECURSIVE UpdateEvents(_, _, _, _)
\* the loop of edit_event_type over self.events.items(), from the i-th key
UpdateEvents(evs, i, type_name, color_name) ==
    IF i > Len(evs.keys) THEN evs
    ELSE LET date_str == evs.keys[i]
             event == evs.val[date_str]
         IN  UpdateEvents(
               IF Get(event, "type", "") = type_name
               THEN DictSet(evs, date_str, [event EXCEPT !.color = color_name])
               ELSE evs,
               i + 1, type_name, color_name)

\* edit_event_type without the refresh_highlight of line 621
edit_event_type_no_refresh(S, now, ans, io1, io2) ==
    IF S.event_types.keys = <<>> THEN Return(Ask(S, "information"), "no_types")
    ELSE
    LET S1 == Ask(S, "item")
        type_name == ans.item.text
    IN  IF Rejected(ans.item) THEN Return(S1, "aborted")
        ELSE LET S2 == Ask(S1, "color")
                 color_name == ans.color.text
             IN  IF Rejected(ans.color) THEN Return(S2, "aborted")
                 ELSE
                 LET S3 == save_event_types(
                             [S2 EXCEPT !.event_types =
                                 DictSet(@, type_name,
                                         [@.val[type_name] EXCEPT !.color = color_name])],
                             io1)
                     S4 == save_events(
                             [S3 EXCEPT !.events =
                                 UpdateEvents(@, 1, type_name, color_name)],
                             io2)
                 IN  Return(Ask(S4, "information"), "done")

\* edit_event_type
edit_event_type(S, now, ans, io1, io2) ==
    IF S.event_types.keys = <<>> THEN Return(Ask(S, "information"), "no_types")
    ELSE
    LET S1 == Ask(S, "item")
        type_name == ans.item.text
    IN  IF Rejected(ans.item) THEN Return(S1, "aborted")
        ELSE LET S2 == Ask(S1, "color")
                 color_name == ans.color.text
             IN  IF Rejected(ans.color) THEN Return(S2, "aborted")
                 ELSE
                 LET S3 == save_event_types(
                             [S2 EXCEPT !.event_types =
                                 DictSet(@, type_name,
                                         [@.val[type_name] EXCEPT !.color = color_name])],
                             io1)
                     S4 == save_events(
                             [S3 EXCEPT !.events =
                                 UpdateEvents(@, 1, type_name, color_name)],
                             io2)
                 IN  Return(Ask(refresh_highlight(S4, now), "information"), "done")

RECURSIVE DeleteEventsOfType(_, _, _)
\* the events without those of the type named
DeleteEventsOfType(evs, i, type_name) ==
    IF i > Len(evs.keys) THEN evs
    ELSE IF Get(evs.val[evs.keys[i]], "type", "") = type_name
         THEN DeleteEventsOfType(DictDel(evs, evs.keys[i]), i, type_name)
         ELSE DeleteEventsOfType(evs, i + 1, type_name)

\* delete_event_type that also deletes the events of the type
delete_event_type_cascade(S, ans, io) ==
    IF S.event_types.keys = <<>> THEN Return(Ask(S, "information"), "no_types")
    ELSE
    LET S1 == Ask(S, "item")
        type_name == ans.item.text
    IN  IF Rejected(ans.item) THEN Return(S1, "aborted")
        ELSE LET S2 == Ask(S1, "confirm")
             IN  IF ans.confirm = "Yes"
                 THEN Return(
                        Ask(save_event_types(
                              [S2 EXCEPT !.event_types = DictDel(@, type_name),
                                         !.events =
                                            DeleteEventsOfType(@, 1, type_name)],
                              io),
                            "information"),
                        "done")
                 ELSE Return(S2, "aborted")

\* delete_event_type
delete_event_type(S, ans, io) ==
    IF S.event_types.keys = <<>> THEN Return(Ask(S, "information"), "no_types")
    ELSE
    LET S1 == Ask(S, "item")
        type_name == ans.item.text
    IN  IF Rejected(ans.item) THEN Return(S1, "aborted")
        ELSE LET S2 == Ask(S1, "confirm")
             IN  IF ans.confirm = "Yes"
                 THEN Return(
                        Ask(save_event_types(
                              [S2 EXCEPT !.event_types = DictDel(@, type_name)], io),
                            "information"),
                        "done")
                 ELSE Return(S2, "aborted")

\* open_context_menu, action == addAction: lines 355-362, after the dialogs
StoreEvent(S, selected_date, event_type, event_desc, color_name, io) ==
    Return(
      save_events(
        highlight_date(
          [S EXCEPT !.events =
              DictSet(@, toString(selected_date),
                      [type |-> event_type, description |-> event_desc,
                       color |-> color_name])],
          selected_date, TRUE, color_name),
        io),
      "done")

\* open_context_menu, action == addAction: type and color typed by hand
AskTypeAndColor(S, selected_date, ans, io) ==
    LET S1 == Ask(S, "type")
    IN  IF Rejected(ans.type) THEN Return(S1, "aborted")
        ELSE LET S2 == Ask(S1, "color")
             IN  IF Rejected(ans.color) THEN Return(S2, "aborted")
                 ELSE StoreEvent(S2, selected_date, ans.type.text, ans.desc.text,
                                 ans.color.text, io)

\* open_context_menu, action == addAction
add_event(S, selected_date, ans, io) ==
    LET S1 == Ask(S, "desc")
    IN  IF Rejected(ans.desc) THEN Return(S1, "aborted")
        ELSE IF S1.event_types.keys # <<>>
        THEN LET S2 == Ask(S1, "item")
                 event_type == ans.item.text
             IN  IF Rejected(ans.item) THEN Return(S2, "aborted")
                 ELSE IF event_type = Custom
                 THEN AskTypeAndColor(S2, selected_date, ans, io)
                 ELSE StoreEvent(S2, selected_date, event_type, ans.desc.text,
                                 S2.event_types.val[event_type].color, io)
        ELSE AskTypeAndColor(S1, selected_date, ans, io)

\* removeAction without the lines 369-373, which restore today's format
remove_event_no_today(S, selected_date, now, io) ==
    LET date_str == toString(selected_date)
    IN  IF Has(S.events, date_str)
        THEN Return(save_events(
                      highlight_date([S EXCEPT !.events = DictDel(@, date_str)],
                                     selected_date, FALSE, ""),
                      io),
                    "done")
        ELSE Return(S, "noop")

\* open_context_menu, action == removeAction
remove_event(S, selected_date, now, io) ==
    LET date_str == toString(selected_date)
    IN  IF Has(S.events, date_str)
        THEN LET S1 == save_events(
                         highlight_date([S EXCEPT !.events = DictDel(@, date_str)],
                                        selected_date, FALSE, ""),
                         io)
             IN  Return(IF selected_date = now
                        THEN setDateTextFormat(S1, selected_date, TodayFormat)
                        ELSE S1,
                        "done")
        ELSE Return(S, "noop")

\* editAction without the call of save_events
edit_event_no_save(S, selected_date, ans, io) ==
    LET date_str == toString(selected_date)
    IN  IF Has(S.events, date_str)
        THEN LET S1 == Ask(S, "type")
                 new_type == ans.type.text
             IN  IF ans.type.ok /\ new_type # ""
                 THEN Return(
                        [S1 EXCEPT !.events =
                            DictSet(@, date_str,
                                    [@.val[date_str] EXCEPT !.type = new_type])],
                        "done")
                 ELSE Return(S1, "aborted")
        ELSE Return(S, "noop")

\* editAction with the assignment of the type ahead of the test of the answer
edit_event_assigns_first(S, selected_date, ans, io) ==
    LET date_str == toString(selected_date)
    IN  IF Has(S.events, date_str)
        THEN LET new_type == ans.type.text
                 S1 == [Ask(S, "type") EXCEPT !.events =
                           DictSet(@, date_str,
                                   [@.val[date_str] EXCEPT !.type = new_type])]
             IN  IF ans.type.ok /\ new_type # ""
                 THEN Return(save_events(S1, io), "done")
                 ELSE Return(S1, "aborted")
        ELSE Return(S, "noop")

\* editAction that also takes the color of the new type when event_types
\* has it
edit_event_takes_type_color(S, selected_date, ans, io) ==
    LET date_str == toString(selected_date)
    IN  IF Has(S.events, date_str)
        THEN LET S1 == Ask(S, "type")
                 new_type == ans.type.text
                 color == IF Has(S1.event_types, new_type)
                          THEN S1.event_types.val[new_type].color
                          ELSE S1.events.val[date_str].color
             IN  IF ans.type.ok /\ new_type # ""
                 THEN Return(
                        save_events(
                          [S1 EXCEPT !.events =
                              DictSet(@, date_str,
                                      [@.val[date_str] EXCEPT !.type = new_type,
                                                              !.color = color])],
                          io),
                        "done")
                 ELSE Return(S1, "aborted")
        ELSE Return(S, "noop")

\* open_context_menu, action == editAction
edit_event(S, selected_date, ans, io) ==
    LET date_str == toString(selected_date)
    IN  IF Has(S.events, date_str)
        THEN LET S1 == Ask(S, "type")
                 new_type == ans.type.text
             IN  IF ans.type.ok /\ new_type # ""
                 THEN Return(
                        save_events(
                          [S1 EXCEPT !.events =
                              DictSet(@, date_str,
                                      [@.val[date_str] EXCEPT !.type = new_type])],
                          io),
                        "done")
                 ELSE Return(S1, "aborted")
        ELSE Return(S, "noop")

\* open_context_menu
open_context_menu(S, action, selected_date, now, ans, io1, io2) ==
    LET S1 == Ask(S, "menu")
    IN  CASE action = "addTypeAction" -> add_event_type(S1, ans, io1)
          [] action = "editTypeAction" -> edit_event_type(S1, now, ans, io1, io2)
          [] action = "deleteTypeAction" -> delete_event_type(S1, ans, io1)
          [] action = "addAction" -> add_event(S1, selected_date, ans, io1)
          [] action = "removeAction" -> remove_event(S1, selected_date, now, io1)
          [] action = "editAction" -> edit_event(S1, selected_date, ans, io1)
          [] OTHER -> Return(S1, "dismissed")

\* close_application without the call of save_event_types
close_application_skips_types(S, io1, io2) ==
    Return(save_events(S, io1), "done")

\* close_application, up to QApplication.quit()
close_application(S, io1, io2) ==
    Return(save_event_types(save_events(S, io1), io2), "done")

\* QApplication.setQuitOnLastWindowClosed(False)
QuitOnLastWindowClosed == FALSE

\* the window and the QCloseEvent sent to it, which is accepted unless the
\* handler ignores it
CloseEventFor(shown) == [visible |-> shown, accepted |-> TRUE]

\* closeEvent: self.hide(), the tray message, event.ignore()
closeEvent(W) == [W EXCEPT !.visible = FALSE, !.accepted = FALSE]

\* tray_icon_activated: a double click toggles the window
tray_icon_activated(shown, reason) ==
    IF reason = "DoubleClick"
    THEN IF shown THEN FALSE ELSE TRUE
    ELSE shown

\* CalendarWidget.__init__: the stores, the two loads, refresh_highlight
init(S, now, rd1, io1, rd2, io2) ==
    Return(
      refresh_highlight(
        load_event_types(
          load_events([S EXCEPT !.events = EmptyDict, !.event_types = EmptyDict],
                      rd1, io1),
          rd2, io2),
        now),
      "done")

---------------------------------------------------------------------------
(* The inputs of the model                                                  *)

\* what the user types as an event description
Descs == {"a"}

\* the type names the user types, or picks from a list of types
TypeInputs == {"Meeting", "X"}

\* the colors the user types
UserColors == {"white"}

\* the answers to a getText dialog: a text, the empty text, Cancel
TextAnswers(texts) == {Answer(TRUE, t) : t \in texts \cup {""}} \cup {NoAnswer}

Range(seq) == {seq[i] : i \in 1..Len(seq)}

\* the answers to a getItem dialog over a non-empty list: an item of the list,
\* or Cancel, which returns the current (first) item with ok = False
ItemAnswers(list) ==
    {Answer(TRUE, t) : t \in Range(list) \cap (TypeInputs \cup {Custom})}
        \cup {Answer(FALSE, list[1])}

\* the answers to the dialogs of one handler
Answers(desc, item, type, color, confirm) ==
    [desc |-> desc, item |-> item, type |-> type, color |-> color,
     confirm |-> confirm]

\* the outcomes the environment can still give to a save call, when it may
\* make maxfail save calls fail in all
IOsNow(maxfail) == {io \in IOs : failures + FailedAttempts(io) <= maxfail}

\* the signal customContextMenuRequested is connected in initUI at lines 153
\* and 167
Connections == <<"open_context_menu", "open_context_menu">>

---------------------------------------------------------------------------
(* Init and the actions                                                     *)

NoFormats == [q \in QDates |-> UnsetFormat]

\* the record of a step: the handler and the return path it took; for a
\* handler that ran to its end the selected date, the type and the color it
\* used; for __init__ what it found of the two files; the save calls made;
\* for add_event_type that found the name in event_types the dialogs shown
Step(op, path, date, type, color, found, writes, asked) ==
    [op |-> op, path |-> path, date |-> date, type |-> type, color |-> color,
     found |-> found, writes |-> writes, asked |-> asked]

\* a step of the environment
EnvStep(op) == Step(op, "", InvalidDate, "", "", <<>>, <<>>, <<>>)

\* the object's state at the start of a handler
Cur == [events |-> events, event_types |-> event_types,
        eventsFile |-> eventsFile, typesFile |-> typesFile,
        display |-> display, failures |-> failures,
        asked |-> <<>>, writes |-> <<>>, path |-> ""]

\* the handler's result becomes the state
Commit(R, op, date, type, color, found) ==
    /\ events' = R.events
    /\ event_types' = R.event_types
    /\ eventsFile' = R.eventsFile
    /\ typesFile' = R.typesFile
    /\ display' = R.display
    /\ failures' = R.failures
    /\ last' = CASE R.path = "done" ->
                       Step(op, R.path, date, type, color, found, R.writes, <<>>)
                 [] R.path \in {"dismissed", "no_types"} ->
                       Step("", "none", InvalidDate, "", "", <<>>, R.writes, <<>>)
                 [] R.path = "exists" ->
                       Step("", R.path, InvalidDate, type, "", <<>>, R.writes,
                            R.asked)
                 [] OTHER ->
                       Step("", R.path, InvalidDate, "", "", <<>>, R.writes, <<>>)

InitEventsFiles == {Absent, Malformed, File(json_dump(EmptyDict))}

InitTypesFiles == {Absent, Malformed, File(json_dump(EmptyDict))}

Init ==
    /\ pc = "fresh"
    /\ today = <<2024, 3, 15>>
    /\ events = EmptyDict
    /\ event_types = EmptyDict
    /\ eventsFile \in InitEventsFiles
    /\ typesFile \in InitTypesFiles
    /\ display = NoFormats
    /\ pending = 0
    /\ failures = 0
    /\ visible = FALSE
    /\ last = EnvStep("none")

\* what a load finds of its file
Found(file, rd) ==
    CASE ~file.exists -> "absent"
      [] rd # "ok" -> "unreadable"
      [] ~file.valid -> "malformed"
      [] OTHER -> "loaded"

\* the process starts: win = CalendarWidget(), win.show()
Startup(maxfail) ==
    /\ pc \in {"fresh", "stopped"}
    /\ \E rd1 \in IF eventsFile.exists /\ maxfail > 0 THEN ReadResults ELSE {"ok"},
          rd2 \in IF typesFile.exists /\ maxfail > 0 THEN ReadResults ELSE {"ok"} :
       \E io1 \in IF Found(eventsFile, rd1) = "absent"
                  THEN IOsNow(maxfail) ELSE {<<"ok", "ok">>} :
       \E io2 \in IF Found(typesFile, rd2) = "loaded"
                  THEN {<<"ok", "ok">>} ELSE IOs :
          LET R == init([Cur EXCEPT !.display = NoFormats], today,
                        rd1, io1, rd2, io2)
          IN  /\ R.failures <= maxfail
              /\ Commit(R, "init", InvalidDate, "", "",
                        <<Found(eventsFile, rd1), Found(typesFile, rd2)>>)
    /\ pc' = "running"
    /\ pending' = 0
    /\ visible' = TRUE
    /\ UNCHANGED today

\* the user right-clicks the calendar: customContextMenuRequested is emitted
\* and every connected slot is to run
ContextMenuRequested ==
    /\ pc = "running"
    /\ visible
    /\ pending = 0
    /\ pending' = Len(Connections)
    /\ last' = EnvStep("signal")
    /\ UNCHANGED <<pc, today, events, event_types, eventsFile, typesFile,
                   display, failures, visible>>

\* one slot invocation of open_context_menu starts
SlotRuns ==
    /\ pc = "running"
    /\ pending > 0
    /\ pending' = pending - 1
    /\ UNCHANGED <<pc, today, visible>>

MenuDismissed ==
    /\ SlotRuns
    /\ \E sel \in {today} :
          Commit(open_context_menu(Cur, "none", sel, today,
                    Answers(NoAnswer, NoAnswer, NoAnswer, NoAnswer, "No"),
                    <<"ok", "ok">>, <<"ok", "ok">>),
                 "none", InvalidDate, "", "", <<>>)

AddEvent(maxfail) ==
    /\ SlotRuns
    /\ \E sel \in QDates, desc \in TextAnswers(Descs) :
       \E item \in IF Rejected(desc) \/ event_types.keys = <<>>
                   THEN {NoAnswer}
                   ELSE ItemAnswers(Append(event_types.keys, Custom)) :
       \E type \in IF Rejected(desc)
                      \/ (event_types.keys # <<>>
                          /\ (Rejected(item) \/ item.text # Custom))
                   THEN {NoAnswer}
                   ELSE TextAnswers(TypeInputs) :
       \E color \in IF Rejected(type) THEN {NoAnswer}
                    ELSE TextAnswers(UserColors) :
       \E io \in IOsNow(maxfail) :
          LET R == open_context_menu(Cur, "addAction", sel, today,
                       Answers(desc, item, type, color, "No"),
                       io, <<"ok", "ok">>)
          IN  /\ (R.writes = <<>>) => io = <<"ok", "ok">>
              /\ Commit(R, "add_event", sel,
                        IF Has(R.events, toString(sel))
                        THEN R.events.val[toString(sel)].type ELSE "",
                        IF Has(R.events, toString(sel))
                        THEN R.events.val[toString(sel)].color ELSE "", <<>>)

RemoveEvent(maxfail) ==
    /\ SlotRuns
    /\ \E sel \in QDates, io \in IOsNow(maxfail) :
          LET R == open_context_menu(Cur, "removeAction", sel, today,
                       Answers(NoAnswer, NoAnswer, NoAnswer, NoAnswer, "No"),
                       io, <<"ok", "ok">>)
          IN  /\ (R.writes = <<>>) => io = <<"ok", "ok">>
              /\ Commit(R, "remove_event", sel, "", "", <<>>)

EditEvent(maxfail) ==
    /\ SlotRuns
    /\ \E sel \in QDates :
       \E type \in IF Has(events, toString(sel))
                   THEN TextAnswers(TypeInputs) ELSE {NoAnswer} :
       \E io \in IOsNow(maxfail) :
          LET R == open_context_menu(Cur, "editAction", sel, today,
                       Answers(NoAnswer, NoAnswer, type, NoAnswer, "No"),
                       io, <<"ok", "ok">>)
          IN  /\ (R.writes = <<>>) => io = <<"ok", "ok">>
              /\ Commit(R, "edit_event", sel, type.text, "", <<>>)

AddEventType(maxfail) ==
    /\ SlotRuns
    /\ \E sel \in {today}, type \in TextAnswers(TypeInputs) :
       \E color \in TextAnswers(UserColors), io \in IOsNow(maxfail) :
          LET R == open_context_menu(Cur, "addTypeAction", sel, today,
                       Answers(NoAnswer, NoAnswer, type, color, "No"),
                       io, <<"ok", "ok">>)
          IN  /\ ("color" \notin Range(R.asked)) => color = NoAnswer
              /\ (R.writes = <<>>) => io = <<"ok", "ok">>
              /\ Commit(R, "add_event_type", InvalidDate, type.text, color.text, <<>>)

EditEventType(maxfail) ==
    /\ SlotRuns
    /\ \E sel \in {today} :
       \E item \in IF event_types.keys = <<>> THEN {NoAnswer}
                   ELSE ItemAnswers(event_types.keys) :
       \E color \in IF Rejected(item) THEN {NoAnswer}
                    ELSE TextAnswers(UserColors) :
       \E io1 \in IOsNow(maxfail), io2 \in IOs :
          LET R == open_context_menu(Cur, "editTypeAction", sel, today,
                       Answers(NoAnswer, item, NoAnswer, color, "No"),
                       io1, io2)
          IN  /\ (R.writes = <<>>) => (io1 = <<"ok", "ok">> /\ io2 = <<"ok", "ok">>)
              /\ R.failures <= maxfail
              /\ Commit(R, "edit_event_type", InvalidDate, item.text, color.text,
                        <<>>)

DeleteEventType(maxfail) ==
    /\ SlotRuns
    /\ \E sel \in {today} :
       \E item \in IF event_types.keys = <<>> THEN {NoAnswer}
                   ELSE ItemAnswers(event_types.keys) :
       \E confirm \in IF Rejected(item) THEN {"No"} ELSE {"Yes", "No"} :
       \E io \in IOsNow(maxfail) :
          LET R == open_context_menu(Cur, "deleteTypeAction", sel, today,
                       Answers(NoAnswer, item, NoAnswer, NoAnswer, confirm),
                       io, <<"ok", "ok">>)
          IN  /\ (R.writes = <<>>) => io = <<"ok", "ok">>
              /\ Commit(R, "delete_event_type", InvalidDate, item.text, "", <<>>)

\* the tray menu's exit action: close_application
Exit(maxfail) ==
    /\ pc = "running"
    /\ pending = 0
    /\ \E io1 \in IOsNow(maxfail), io2 \in IOs :
          LET R == close_application(Cur, io1, io2)
          IN  /\ R.failures <= maxfail
              /\ Commit(R, "exit", InvalidDate, "", "", <<>>)
    /\ pc' = "stopped"
    /\ visible' = FALSE
    /\ UNCHANGED <<today, pending>>

\* the process ends without close_application (the session ends, the process
\* is killed); events and event_types keep the stores the process held
ProcessKilled ==
    /\ pc = "running"
    /\ pc' = "stopped"
    /\ pending' = 0
    /\ visible' = FALSE
    /\ last' = EnvStep("killed")
    /\ UNCHANGED <<today, events, event_types, eventsFile, typesFile, display,
                   failures>>

\* the day ends: QDate.currentDate() is the next day from now on
Midnight ==
    /\ NextDay(today) \in QDates
    /\ today' = NextDay(today)
    /\ last' = EnvStep("midnight")
    /\ UNCHANGED <<pc, events, event_types, eventsFile, typesFile, display,
                   pending, failures, visible>>

\* the window is asked to close: closeEvent runs, and Qt quits the
\* application when the event was accepted and quitOnLastWindowClosed is set
CloseRequested ==
    /\ pc = "running"
    /\ visible
    /\ pending = 0
    /\ LET W == closeEvent(CloseEventFor(visible))
       IN  /\ visible' = W.visible
           /\ pc' = IF W.accepted /\ QuitOnLastWindowClosed
                    THEN "stopped" ELSE "running"
    /\ last' = EnvStep("closeEvent")
    /\ UNCHANGED <<today, events, event_types, eventsFile, typesFile, display,
                   pending, failures>>

\* the reasons of QSystemTrayIcon.activated
ActivationReasons == {"Trigger", "DoubleClick"}

\* the tray icon is clicked: tray_icon_activated
TrayActivated ==
    /\ pc = "running"
    /\ \E reason \in ActivationReasons :
          visible' = tray_icon_activated(visible, reason)
    /\ last' = EnvStep("tray_icon_activated")
    /\ UNCHANGED <<pc, today, events, event_types, eventsFile, typesFile,
                   display, pending, failures>>

\* the tray menu's show action: self.show
TrayShow ==
    /\ pc = "running"
    /\ visible' = TRUE
    /\ last' = EnvStep("show")
    /\ UNCHANGED <<pc, today, events, event_types, eventsFile, typesFile,
                   display, pending, failures>>

\* the tray menu's hide action: self.hide
TrayHide ==
    /\ pc = "running"
    /\ visible' = FALSE
    /\ last' = EnvStep("hide")
    /\ UNCHANGED <<pc, today, events, event_types, eventsFile, typesFile,
                   display, pending, failures>>

\* every write attempt succeeds
Next ==
    \/ Startup(0)
    \/ ContextMenuRequested
    \/ MenuDismissed
    \/ AddEvent(0)
    \/ RemoveEvent(0)
    \/ EditEvent(0)
    \/ AddEventType(0)
    \/ EditEventType(0)
    \/ DeleteEventType(0)
    \/ Exit(0)
    \/ ProcessKilled
    \/ Midnight

Spec == Init /\ [][Next]_vars

\* write attempts may fail, in MaxWriteFailures save calls at most; the user
\* adds events and event types
NextIO ==
    \/ Startup(MaxWriteFailures)
    \/ ContextMenuRequested
    \/ AddEvent(MaxWriteFailures)
    \/ AddEventType(MaxWriteFailures)
    \/ Exit(MaxWriteFailures)
    \/ ProcessKilled

SpecIO == Init /\ [][NextIO]_vars

\* the window is closed, hidden and shown while the user adds events; every
\* write attempt succeeds
NextTray ==
    \/ Startup(0)
    \/ ContextMenuRequested
    \/ AddEvent(0)
    \/ CloseRequested
    \/ TrayActivated
    \/ TrayShow
    \/ TrayHide
    \/ Exit(0)
    \/ ProcessKilled

SpecTray == Init /\ [][NextTray]_vars

---------------------------------------------------------------------------
(* Properties                                                               *)

\* the handlers that change a store when they run to their end
MutatingOps == {"add_event", "remove_event", "edit_event", "add_event_type",
                "edit_event_type", "delete_event_type"}

\* the step is a handler of MutatingOps that ran to its end
Mutated(step) == step.op \in MutatingOps /\ step.path = "done"

\* the process starts again
Restart == pc = "stopped" /\ pc' = "running"

\* C1 as stated: at the end of every UI action that mutates a store, with
\* every write succeeding, events_data.json holds the in-memory events map
\* and event_types.json holds the in-memory event-types map.
C1_FilesEqualStores ==
    (pc = "running" /\ Mutated(last))
        => /\ eventsFile = File(json_dump(events))
           /\ typesFile = File(json_dump(event_types))

\* C1 as amended: with every read and write succeeding, at the end of every UI
\* action that mutates a store event_types.json holds the in-memory event-types map
\* and events_data.json holds the in-memory events map, unless events_data.json
\* was malformed at startup and no events action has written it since: then
\* the in-memory events map is empty, which is what load_events makes of the
\* file. In both cases a restart yields the stores held before it.
C1_FilesLoadToStores ==
    /\ []((pc = "running" /\ Mutated(last))
            => /\ typesFile = File(json_dump(event_types))
               /\ \/ eventsFile = File(json_dump(events))
                  \/ eventsFile = Malformed /\ events = EmptyDict)
    /\ [][Restart => (events' = events /\ event_types' = event_types)]_vars

\* C1's case: a restart that loads two events and a changed set of types
C1_Witness ==
    /\ last.op = "init"
    /\ Len(events.keys) = 2
    /\ Has(event_types, "X")
    /\ eventsFile = File(json_dump(events))

\* C2: edit_event_type with type T and color C sets C on every event of type
\* T, leaves every other event, the type and description of the events of type
\* T, the dates and their order as they are, and changes no entry of
\* event_types but T's color.
C2_EditTypeCascade ==
    [][(last'.op = "edit_event_type" /\ last'.path = "done") =>
        LET T == last'.type
            C == last'.color
        IN  /\ events'.keys = events.keys
            /\ DOMAIN events'.val = DOMAIN events.val
            /\ \A d \in DOMAIN events.val :
                  /\ events'.val[d].type = events.val[d].type
                  /\ events'.val[d].description = events.val[d].description
                  /\ events'.val[d].color =
                        IF events.val[d].type = T THEN C ELSE events.val[d].color
            /\ event_types'.keys = event_types.keys
            /\ DOMAIN event_types'.val = DOMAIN event_types.val
            /\ T \in DOMAIN event_types.val
            /\ event_types'.val[T] = [color |-> C]
            /\ \A k \in DOMAIN event_types.val \ {T} :
                  event_types'.val[k] = event_types.val[k]
    ]_vars

\* C2's case: after edit_event_type an event of the edited type carries the
\* new color next to an event of another type and another color
C2_Witness ==
    /\ last.op = "edit_event_type"
    /\ last.path = "done"
    /\ \E d1, d2 \in DOMAIN events.val :
          /\ events.val[d1].type = last.type
          /\ events.val[d1].color = last.color
          /\ events.val[d2].type # last.type
          /\ events.val[d2].color # last.color

\* blue text on light blue
FallbackStyle == [fg |-> <<0, 0, 255>>, bg |-> <<173, 216, 230>>]

\* black text on white
NeutralStyle == [fg |-> <<0, 0, 0>>, bg |-> <<255, 255, 255>>]

\* C3: the delete-event action on a selected date with a record removes the
\* record and leaves the date in the fallback today-style when the date is
\* today, and in the neutral style when it is not.
C3_DeleteRestoresStyle ==
    [][(last'.op = "remove_event" /\ last'.path = "done") =>
        LET q == last'.date
        IN  /\ Has(events, toString(q))
            /\ ~Has(events', toString(q))
            /\ \A d \in DOMAIN events'.val : events'.val[d] = events.val[d]
            /\ DOMAIN events'.val = DOMAIN events.val \ {toString(q)}
            /\ display'[q] = IF q = today THEN FallbackStyle ELSE NeutralStyle
    ]_vars

\* C3's case: today's event was deleted while another date keeps its event
C3_Witness ==
    /\ last.op = "remove_event"
    /\ last.path = "done"
    /\ last.date = today
    /\ events.keys # <<>>

\* C4: a handler that returns because a dialog was cancelled, answered with
\* the empty string, or because the deletion was not confirmed, changes
\* neither store, neither file, nor any date's format.
C4_AbortChangesNothing ==
    [][(last'.path = "aborted") =>
        UNCHANGED <<events, event_types, eventsFile, typesFile, display>>]_vars

\* C4's case: a flow was aborted with events and event types in the stores
C4_Witness ==
    /\ last.path = "aborted"
    /\ events.keys # <<>>
    /\ event_types.keys # <<>>

\* the result of the last write attempt of a save call
FinalResult(w) == w.results[Len(w.results)]

\* the save calls of a step on the file named
WritesOf(step, file) == SelectSeq(step.writes, LAMBDA w : w.file = file)

\* C5 as stated: starting when events_data.json does not exist yields an empty
\* events map and creates events_data.json holding an empty object.
C5_MissingFileCreated ==
    [][(last'.op = "init" /\ last'.found[1] = "absent") =>
        /\ events' = EmptyDict
        /\ eventsFile' = File(<<>>)
    ]_vars

\* C5 as amended: starting when events_data.json does not exist yields an
\* empty events map and one call of save_events; when its write or its retry
\* succeeds events_data.json holds an empty object, and when both fail the file
\* is still missing or holds no valid JSON.
C5_MissingFileCreatedIfWritten ==
    [][(last'.op = "init" /\ last'.found[1] = "absent") =>
        /\ events' = EmptyDict
        /\ Len(WritesOf(last', "events")) = 1
        /\ IF FinalResult(WritesOf(last', "events")[1]) = "ok"
           THEN eventsFile' = File(<<>>)
           ELSE eventsFile' \in {Absent, Malformed}
    ]_vars

\* C5's case: a start without events_data.json has created the file
C5_Witness ==
    /\ last.op = "init"
    /\ last.found[1] = "absent"
    /\ events = EmptyDict
    /\ eventsFile = File(<<>>)

\* C6: a save call makes one write attempt, and a second one exactly when the
\* first fails; a handler whose save call fails in both attempts still runs to
\* its end; close_application, which only saves, leaves both stores as they
\* are whatever the attempts' results, and a file whose save failed is as it
\* was or without valid content.
C6_SaveRetriesOnce ==
    /\ [](\A i \in 1..Len(last.writes) :
            LET r == last.writes[i].results
            IN  /\ Len(r) \in {1, 2}
                /\ (Len(r) = 2) <=> (r[1] # "ok")
                /\ last.path = "done")
    /\ [][(last'.op = "exit") =>
            /\ events' = events
            /\ event_types' = event_types
            /\ Len(WritesOf(last', "events")) = 1
            /\ Len(WritesOf(last', "types")) = 1
            /\ FinalResult(WritesOf(last', "events")[1]) # "ok"
                  => eventsFile' \in {eventsFile, Malformed}
            /\ FinalResult(WritesOf(last', "types")[1]) # "ok"
                  => typesFile' \in {typesFile, Malformed}
      ]_vars

\* C6's case: a save call failed twice and the file differs from the store
C6_Witness ==
    /\ last.op = "exit"
    /\ Len(last.writes[1].results) = 2
    /\ FinalResult(last.writes[1]) # "ok"
    /\ events.keys # <<>>
    /\ eventsFile # File(json_dump(events))

\* a load that found its file malformed or unreadable
Bad(found) == found \in {"malformed", "unreadable"}

\* the four default types as a store, and as the text of event_types.json
FourDefaults ==
    [keys |-> <<"Meeting", "Birthday", "Holiday", "Anniversary">>,
     val  |-> [k \in {"Meeting", "Birthday", "Holiday", "Anniversary"} |->
                 [color |-> CASE k = "Meeting" -> "#FF5733"
                              [] k = "Birthday" -> "#33FF57"
                              [] k = "Holiday" -> "#3357FF"
                              [] OTHER -> "#FF33A8"]]]

FourDefaultsText ==
    << <<"Meeting", [color |-> "#FF5733"]>>, <<"Birthday", [color |-> "#33FF57"]>>,
       <<"Holiday", [color |-> "#3357FF"]>>,
       <<"Anniversary", [color |-> "#FF33A8"]>> >>

\* C7 as stated: a data file that exists at startup and is malformed or
\* unreadable leaves its store empty.
C7_BadFileGivesEmptyStore ==
    [][(last'.op = "init") =>
        /\ Bad(last'.found[1]) => events' = EmptyDict
        /\ Bad(last'.found[2]) => event_types' = EmptyDict
    ]_vars

\* C7 as amended: __init__ runs to its end; a malformed or unreadable
\* events_data.json leaves the events store empty, and a malformed or
\* unreadable event_types.json leaves the event-types store with the four
\* default types.
C7_BadFileGivesEmptyOrDefaults ==
    [][(last'.op = "init") =>
        /\ last'.path = "done"
        /\ Bad(last'.found[1]) => events' = EmptyDict
        /\ Bad(last'.found[2]) => event_types' = FourDefaults
    ]_vars

\* C7's case: a start that found both files malformed or unreadable
C7_Witness ==
    /\ last.op = "init"
    /\ last.found[1] = "malformed"
    /\ last.found[2] = "unreadable"

\* C8 as stated: without event_types.json at startup the store is the four
\* default types and they are written to event_types.json; with a file that
\* loads, the store is the file's content and the file is left as it is.
C8_DefaultsSeededAndWritten ==
    [][(last'.op = "init") =>
        /\ last'.found[2] = "absent" =>
              /\ event_types' = FourDefaults
              /\ typesFile' = File(FourDefaultsText)
        /\ last'.found[2] = "loaded" =>
              /\ json_dump(event_types') = typesFile.text
              /\ typesFile' = typesFile
    ]_vars

\* C8 as amended: without event_types.json at startup the store is the four
\* default types and save_event_types is called once: the four are in
\* event_types.json when its write or its retry succeeds; with a file that
\* loads, the store is the file's content, nothing is written and the file is
\* left as it is.
C8_DefaultsSeededWrittenIfPossible ==
    [][(last'.op = "init") =>
        /\ last'.found[2] = "absent" =>
              /\ event_types' = FourDefaults
              /\ Len(WritesOf(last', "types")) = 1
              /\ FinalResult(WritesOf(last', "types")[1]) = "ok"
                    => typesFile' = File(FourDefaultsText)
        /\ last'.found[2] = "loaded" =>
              /\ json_dump(event_types') = typesFile.text
              /\ WritesOf(last', "types") = <<>>
              /\ typesFile' = typesFile
    ]_vars

\* C8's case: a start without event_types.json has written the four defaults
C8_Witness ==
    /\ last.op = "init"
    /\ last.found[2] = "absent"
    /\ event_types = FourDefaults
    /\ typesFile = File(FourDefaultsText)

\* an event's type is no key of event_types
Dangling == \E d \in DOMAIN events.val : ~Has(event_types, events.val[d].type)

\* C9: delete_event_type with a confirmed type T removes the key T and
\* nothing else from event_types, leaves every event as it is (also those of
\* type T) and does not write events_data.json; with an event whose type is
\* no key of event_types, every handler of the context menu can still run.
C9_DeleteTypeNoCascade ==
    /\ [][(last'.op = "delete_event_type" /\ last'.path = "done") =>
            LET T == last'.type
            IN  /\ T \in DOMAIN event_types.val
                /\ DOMAIN event_types'.val = DOMAIN event_types.val \ {T}
                /\ event_types'.keys = SelectSeq(event_types.keys, LAMBDA k : k # T)
                /\ \A k \in DOMAIN event_types'.val :
                      event_types'.val[k] = event_types.val[k]
                /\ events' = events
                /\ eventsFile' = eventsFile
                /\ WritesOf(last', "events") = <<>>
      ]_vars
    /\ []((pc = "running" /\ pending > 0 /\ Dangling) =>
            /\ ENABLED AddEvent(0)
            /\ ENABLED RemoveEvent(0)
            /\ ENABLED EditEvent(0)
            /\ ENABLED AddEventType(0)
            /\ ENABLED EditEventType(0)
            /\ ENABLED DeleteEventType(0))

\* C9's case: the type of an event was deleted and the event is still there
C9_Witness ==
    /\ last.op = "delete_event_type"
    /\ last.path = "done"
    /\ \E d \in DOMAIN events.val : events.val[d].type = last.type

C11_TodayFallback ==
    /\ []((pc = "running" /\ ~Has(events, toString(today)))
            => display[today] = FallbackStyle)
    /\ [][(last'.op = "add_event" /\ last'.path = "done" /\ last'.date = today')
            => /\ Has(events', toString(today'))
               /\ display'[today'] =
                     HighlightFormat(events'.val[toString(today')].color)
               /\ display'[today'] # FallbackStyle
      ]_vars


\* C12: the edit-event action on a date with a record changes the type of
\* that record and nothing else: its description and color, every other
\* record, the order of the dates, event_types and every date's format are as
\* before; edit-event and delete-event on a date without a record change
\* nothing and write nothing.
C12_EditEventChangesTypeOnly ==
    /\ [][(last'.op = "edit_event" /\ last'.path = "done") =>
            LET date_str == toString(last'.date)
            IN  /\ Has(events, date_str)
                /\ events'.keys = events.keys
                /\ DOMAIN events'.val = DOMAIN events.val
                /\ events'.val[date_str] =
                      [type |-> last'.type,
                       description |-> events.val[date_str].description,
                       color |-> events.val[date_str].color]
                /\ \A d \in DOMAIN events.val \ {date_str} :
                      events'.val[d] = events.val[d]
                /\ UNCHANGED <<event_types, typesFile, display>>
      ]_vars
    /\ [][(last'.path = "noop") =>
            /\ UNCHANGED <<events, event_types, eventsFile, typesFile, display>>
            /\ last'.writes = <<>>
      ]_vars

\* C12's case: the type of one of two records was changed to a type of
\* event_types whose color is not the record's
C12_Witness ==
    /\ last.op = "edit_event"
    /\ last.path = "done"
    /\ Len(events.keys) = 2
    /\ Has(event_types, last.type)
    /\ event_types.val[last.type].color # events.val[toString(last.date)].color


\* a slot invocation of open_context_menu is the step
SlotRan == pc' = "running" /\ pending' < pending

\* C13: one customContextMenuRequested signal runs open_context_menu exactly
\* once: the signal leaves one slot invocation to run, and after an invocation
\* that changed a store no further invocation for the same signal changes one.
C13_OneRunPerSignal ==
    /\ [][(last'.op = "signal") => pending' = 1]_vars
    /\ [][(SlotRan /\ Mutated(last)) => ~Mutated(last')]_vars


\* the application ends
Terminates == pc = "running" /\ pc' # "running"

\* C14: a close request hides the window and leaves the application running
\* with its stores and files as they are; the tray's double click toggles the
\* window and its show and hide actions show and hide it, the application
\* running on; the application ends only by the tray's exit action (or when
\* its process is killed), and the exit action saves the events store and the
\* event-types store before the application quits.
C14_CloseKeepsRunning ==
    /\ [][(last'.op = "closeEvent") =>
            /\ pc' = "running"
            /\ ~visible'
            /\ UNCHANGED <<events, event_types, eventsFile, typesFile>>
      ]_vars
    /\ [][(last'.op \in {"tray_icon_activated", "show", "hide"}) =>
            /\ pc' = "running"
            /\ last'.op = "show" => visible'
            /\ last'.op = "hide" => ~visible'
            /\ UNCHANGED <<events, event_types, eventsFile, typesFile>>
      ]_vars
    /\ [][Terminates => last'.op \in {"exit", "killed"}]_vars
    /\ [][(last'.op = "exit") =>
            /\ Terminates
            /\ UNCHANGED <<events, event_types>>
            /\ Len(WritesOf(last', "events")) = 1
            /\ Len(WritesOf(last', "types")) = 1
            /\ eventsFile' = File(json_dump(events))
            /\ typesFile' = File(json_dump(event_types))
      ]_vars

\* C14's case: the window was closed with an event in the store, and the
\* application runs on with the window hidden
C14_Witness ==
    /\ last.op = "closeEvent"
    /\ pc = "running"
    /\ ~visible
    /\ events.keys # <<>>


\* C15: add_event_type with a name that is a key of event_types shows the
\* warning and no color dialog, writes nothing and leaves both stores and both
\* files as they are; with a new name and a non-empty color it appends that
\* one key with that color to event_types and leaves every other type and every
\* event as it is.
C15_AddTypeRejectsDuplicate ==
    /\ [][(last'.path = "exists") =>
            /\ Has(event_types, last'.type)
            /\ last'.asked = <<"menu", "type", "warning">>
            /\ last'.writes = <<>>
            /\ UNCHANGED <<events, event_types, eventsFile, typesFile, display>>
      ]_vars
    /\ [][(last'.op = "add_event_type" /\ last'.path = "done") =>
            LET T == last'.type
                C == last'.color
            IN  /\ T # "" /\ C # ""
                /\ ~Has(event_types, T)
                /\ event_types'.keys = Append(event_types.keys, T)
                /\ DOMAIN event_types'.val = DOMAIN event_types.val \cup {T}
                /\ event_types'.val[T] = [color |-> C]
                /\ \A k \in DOMAIN event_types.val :
                      event_types'.val[k] = event_types.val[k]
                /\ UNCHANGED <<events, eventsFile, display>>
      ]_vars

\* C15's case: a name that was added as a new type before is entered again
\* and rejected, with an event in the store
C15_Witness ==
    /\ last.path = "exists"
    /\ last.type = "X"
    /\ event_types.val["X"] = [color |-> "white"]
    /\ events.keys # <<>>

=============================================================================
